---- MODULE Spec2Model ----
(***************************************************************************)
(* Model of aggregate.py: the kanji-numeral converter (kansuji2arabic),    *)
(* the candidate expander (get_repname_set / expand_ambiguity) and the     *)
(* first-match clustering fold (aggregate), with the main pipeline.        *)
(*                                                                         *)
(* A Python str is a sequence of one-character tokens.  Characters are     *)
(* written in ASCII:  "0".."9" half-width digits, "Z0".."Z9" full-width    *)
(* digits, "K0".."K9" the kanji digits 〇一二..九, "D1".."D3" the daiji    *)
(* 壱弐参, "JUU" 十, "JUU2" 拾, "HYAKU" 百, "SEN" 千, "MAN" 万, "OKU" 億,  *)
(* "a".."c" half-width letters, "Za".."Zc" full-width letters, "NO" a      *)
(* kana, "?" the separator of alternative representative names.            *)
(* 兆 (10^12) is left out: it exceeds the integers of the model checker.   *)
(***************************************************************************)
EXTENDS Integers, Sequences, FiniteSets, TLC

VARIABLES pc, file_in, words, prep_words, repname_sets,
          repname_sets_to_merge, wi, merged_into, repname2id, mi,
          word_with_id, file_out,
          mrph_list, repname_set, expanded_repname, ri,
          num, kstring, transuji, kout

vars == <<pc, file_in, words, prep_words, repname_sets,
          repname_sets_to_merge, wi, merged_into, repname2id, mi,
          word_with_id, file_out,
          mrph_list, repname_set, expanded_repname, ri,
          num, kstring, transuji, kout>>

aggVars == <<file_in, words, prep_words, repname_sets,
             repname_sets_to_merge, wi, merged_into, repname2id, mi,
             word_with_id, file_out>>
repVars == <<mrph_list, repname_set, expanded_repname, ri>>
kanVars == <<num, kstring, transuji, kout>>

(***************************************************************************)
(* Bounds of the model.                                                    *)
(***************************************************************************)
MaxWords == 3
MaxMrph == 2
MaxLow == 2100
MaxMan == 2
MaxOku == 1

(***************************************************************************)
(* Characters.                                                             *)
(***************************************************************************)
HDigit == <<"0", "1", "2", "3", "4", "5", "6", "7", "8", "9">>
ZDigit == <<"Z0", "Z1", "Z2", "Z3", "Z4", "Z5", "Z6", "Z7", "Z8", "Z9">>
KDigit == <<"K0", "K1", "K2", "K3", "K4", "K5", "K6", "K7", "K8", "K9">>

Range(f) == {f[i] : i \in DOMAIN f}
IndexOf(f, c) == CHOOSE i \in DOMAIN f : f[i] = c

\* str.isdecimal / int / \d of Python 3 accept both widths of a digit
Digits == Range(HDigit) \cup Range(ZDigit)
DigitVal(c) == IF c \in Range(HDigit) THEN IndexOf(HDigit, c) - 1
               ELSE IndexOf(ZDigit, c) - 1

\* zenhan.h2z with its default mode: ASCII letters, digits and signs become
\* their full-width forms, every other character is kept
h2zChar(c) ==
    IF c \in Range(HDigit) THEN ZDigit[IndexOf(HDigit, c)]
    ELSE IF c = "a" THEN "Za"
    ELSE IF c = "b" THEN "Zb"
    ELSE IF c = "c" THEN "Zc"
    ELSE IF c = "?" THEN "Z?"
    ELSE c

h2z(s) == [i \in 1..Len(s) |-> h2zChar(s[i])]

(***************************************************************************)
(* kansuji2arabic                                                          *)
(***************************************************************************)
\* tt_ksuji = str.maketrans('一二三四五六七八九〇壱弐参', '1234567890123')
tt_ksuji(c) ==
    IF c \in Range(KDigit) THEN HDigit[IndexOf(KDigit, c)]
    ELSE IF c = "D1" THEN "1"
    ELSE IF c = "D2" THEN "2"
    ELSE IF c = "D3" THEN "3"
    ELSE c

translate(s) == [i \in 1..Len(s) |-> tt_ksuji(s[i])]

TRANSUNIT == [c \in {"JUU", "JUU2", "HYAKU", "SEN"} |->
                 IF c = "HYAKU" THEN 100 ELSE IF c = "SEN" THEN 1000 ELSE 10]
TRANSMANS == [c \in {"MAN", "OKU"} |->
                 IF c = "MAN" THEN 10000 ELSE 100000000]

\* the character classes of re_suji, re_kunit and re_manshin
SujiChars == DOMAIN TRANSUNIT \cup DOMAIN TRANSMANS \cup Digits

isdecimal(s) == Len(s) > 0 /\ \A i \in 1..Len(s) : s[i] \in Digits

RECURSIVE int(_)
int(s) == IF Len(s) = 0 THEN 0
          ELSE 10 * int(SubSeq(s, 1, Len(s) - 1)) + DigitVal(s[Len(s)])

RECURSIVE str(_)
str(n) == IF n < 10 THEN <<HDigit[n + 1]>>
          ELSE Append(str(n \div 10), HDigit[(n % 10) + 1])

\* the length of the longest prefix of s made of characters of S
RECURSIVE PrefixIn(_, _)
PrefixIn(s, S) == IF Len(s) = 0 \/ Head(s) \notin S THEN 0
                  ELSE 1 + PrefixIn(Tail(s), S)

RECURSIVE PrefixNotIn(_, _)
PrefixNotIn(s, S) == IF Len(s) = 0 \/ Head(s) \in S THEN 0
                     ELSE 1 + PrefixNotIn(Tail(s), S)

Drop(s, k) == SubSeq(s, k + 1, Len(s))

\* re_kunit.findall(s): a small unit alone, or a longest run of digits;
\* any other character is skipped
RECURSIVE re_kunit_findall(_)
re_kunit_findall(s) ==
    IF Len(s) = 0 THEN <<>>
    ELSE IF Head(s) \in DOMAIN TRANSUNIT
         THEN <<<<Head(s)>>>> \o re_kunit_findall(Tail(s))
    ELSE IF Head(s) \in Digits
         THEN LET k == PrefixIn(s, Digits)
              IN  <<SubSeq(s, 1, k)>> \o re_kunit_findall(Drop(s, k))
    ELSE re_kunit_findall(Tail(s))

\* re_manshin.findall(s): a large unit alone, or a longest run without one
RECURSIVE re_manshin_findall(_)
re_manshin_findall(s) ==
    IF Len(s) = 0 THEN <<>>
    ELSE IF Head(s) \in DOMAIN TRANSMANS
         THEN <<<<Head(s)>>>> \o re_manshin_findall(Tail(s))
    ELSE LET k == PrefixNotIn(s, DOMAIN TRANSMANS)
         IN  <<SubSeq(s, 1, k)>> \o re_manshin_findall(Drop(s, k))

\* _transvalue(sj, re_obj, transdic); large = TRUE stands for the call with
\* (re_manshin, TRANSMANS), large = FALSE for the defaults (re_kunit,
\* TRANSUNIT).  transloop is the for loop over reversed(findall(sj)): k is
\* the position of the next piece, from the last one down; it yields the
\* unit and the result the loop ends with.
RECURSIVE transvalue(_, _), transloop(_, _, _, _, _)
transloop(pieces, k, unit, result, large) ==
    LET transdic == IF large THEN TRANSMANS ELSE TRANSUNIT
    IN  IF k = 0
        THEN [unit |-> unit, result |-> result]
        ELSE LET piece == pieces[k]
             IN  IF Len(piece) = 1 /\ piece[1] \in DOMAIN transdic
                 THEN transloop(pieces, k - 1, transdic[piece[1]],
                                IF unit > 1 THEN result + unit ELSE result,
                                large)
                 ELSE LET val == IF isdecimal(piece) THEN int(piece)
                                 ELSE transvalue(piece, FALSE)
                      IN  transloop(pieces, k - 1, 1, result + val * unit,
                                    large)

\* _transvalue without the last "if unit > 1: result += unit"
transvalue_noflush(sj, large) ==
    LET pieces == IF large THEN re_manshin_findall(sj)
                  ELSE re_kunit_findall(sj)
    IN  transloop(pieces, Len(pieces), 1, 0, large).result

transvalue(sj, large) ==
    LET pieces == IF large THEN re_manshin_findall(sj)
                  ELSE re_kunit_findall(sj)
        end == transloop(pieces, Len(pieces), 1, 0, large)
    IN  IF end.unit > 1 THEN end.result + end.unit ELSE end.result

\* The loop of kansuji2arabic over the runs matched by re_suji.  Every run
\* that is replaced holds a unit character and is a longest run, so each
\* occurrence that str.replace finds is a whole run of the string and the
\* longest-first order of the replacements does not show in the result:
\* the loop amounts to rewriting each run where it stands.
RECURSIVE replace_suji(_)
replace_suji(s) ==
    IF Len(s) = 0 THEN <<>>
    ELSE IF Head(s) \in SujiChars
         THEN LET k == PrefixIn(s, SujiChars)
                  suji == SubSeq(s, 1, k)
              IN  (IF isdecimal(suji) THEN suji
                   ELSE str(transvalue(suji, TRUE)))
                  \o replace_suji(Drop(s, k))
    ELSE LET k == PrefixNotIn(s, SujiChars)
         IN  SubSeq(s, 1, k) \o replace_suji(Drop(s, k))

kansuji2arabic(ks) == h2z(replace_suji(translate(ks)))

(***************************************************************************)
(* get_repname_set and expand_ambiguity                                    *)
(***************************************************************************)
\* A morpheme of pyknp: bunrui, midasi and repnames() ('' when it has none).
SUUSHI == "SUUSHI"
Mrph(bunrui, midasi, repnames) ==
    [bunrui |-> bunrui, midasi |-> midasi, repnames |-> repnames]

\* str.split('?')
RECURSIVE split(_)
split(s) ==
    LET k == PrefixNotIn(s, {"?"})
    IN  IF k = Len(s) THEN <<s>>
        ELSE <<SubSeq(s, 1, k)>> \o split(Drop(s, k + 1))

\* tuple(s) of a str s: one one-character str for each character
tuple_of_str(s) == [i \in 1..Len(s) |-> <<s[i]>>]

\* mrph_candidates with the converted number as the one candidate of a
\* numeral morpheme
mrph_candidates_whole(mrph) ==
    IF mrph.bunrui = SUUSHI THEN <<kansuji2arabic(mrph.midasi)>>
    ELSE IF mrph.repnames # <<>> THEN split(mrph.repnames)
    ELSE <<mrph.midasi>>

\* the if / elif / else of get_repname_set: the candidates of one morpheme
mrph_candidates(mrph) ==
    IF mrph.bunrui = SUUSHI THEN tuple_of_str(kansuji2arabic(mrph.midasi))
    ELSE IF mrph.repnames # <<>> THEN split(mrph.repnames)
    ELSE <<mrph.midasi>>

\* product_tuple with the two for clauses exchanged
product_tuple_swapped(t1, t2) ==
    [k \in 1..(Len(t1) * Len(t2)) |->
        t1[((k - 1) % Len(t1)) + 1] \o t2[((k - 1) \div Len(t1)) + 1]]

\* tuple([_t1 + _t2 for _t1 in t1 for _t2 in t2])
product_tuple(t1, t2) ==
    [k \in 1..(Len(t1) * Len(t2)) |->
        t1[((k - 1) \div Len(t2)) + 1] \o t2[((k - 1) % Len(t2)) + 1]]

RECURSIVE expand_loop(_, _, _)
expand_loop(expanded, repname, k) ==
    IF k > Len(repname) THEN expanded
    ELSE expand_loop(product_tuple(expanded, repname[k]), repname, k + 1)

expand_ambiguity(repname) == expand_loop(<< <<>> >>, repname, 1)

\* the body of the loop of get_repname_set for one word, given the
\* morphemes the analyser returns for it
repname_set_of(mrphs) ==
    expand_ambiguity([k \in 1..Len(mrphs) |-> mrph_candidates(mrphs[k])])

(***************************************************************************)
(* The canonical kanji spelling of a number (the input of the numeral      *)
(* round trip): digits 一..九 before 十 百 千, a bare unit for multiplier  *)
(* one, groups of four digits before 万 and 億.                            *)
(***************************************************************************)
SpellDigit(d, unit) ==
    IF d = 0 THEN <<>>
    ELSE IF d = 1 THEN <<unit>>
    ELSE <<KDigit[d + 1], unit>>

Spell4(r) ==
    SpellDigit(r \div 1000, "SEN")
    \o SpellDigit((r \div 100) % 10, "HYAKU")
    \o SpellDigit((r \div 10) % 10, "JUU")
    \o (IF r % 10 = 0 THEN <<>> ELSE <<KDigit[(r % 10) + 1]>>)

SpellGroup(g, unit) == IF g = 0 THEN <<>> ELSE Spell4(g) \o <<unit>>

Spell(n) ==
    SpellGroup(n \div 100000000, "OKU")
    \o SpellGroup((n \div 10000) % 10000, "MAN")
    \o Spell4(n % 10000)

Numbers ==
    {o * 100000000 + m * 10000 + r :
        o \in 0..MaxOku, m \in 0..MaxMan, r \in 0..MaxLow} \ {0}

(***************************************************************************)
(* SpecKan: kansuji2arabic on the canonical spelling of a number.          *)
(***************************************************************************)
IdleAgg ==
    /\ file_in = <<>> /\ words = <<>> /\ prep_words = <<>>
    /\ repname_sets = <<>> /\ repname_sets_to_merge = <<>> /\ wi = 0
    /\ merged_into = <<>> /\ repname2id = <<>> /\ mi = 0
    /\ word_with_id = <<>> /\ file_out = <<>>

IdleRep ==
    /\ mrph_list = <<>> /\ repname_set = <<>> /\ expanded_repname = <<>>
    /\ ri = 0

IdleKan ==
    /\ num = 0 /\ kstring = <<>> /\ transuji = <<>> /\ kout = <<>>

InitKan ==
    /\ pc = "kan_translate"
    /\ num \in Numbers
    /\ kstring = Spell(num)
    /\ transuji = <<>>
    /\ kout = <<>>
    /\ IdleAgg /\ IdleRep

\* transuji = kstring.translate(tt_ksuji)
KanTranslate ==
    /\ pc = "kan_translate"
    /\ transuji' = translate(kstring)
    /\ pc' = "kan_replace"
    /\ UNCHANGED <<num, kstring, kout>>
    /\ UNCHANGED <<aggVars, repVars>>

\* the for loop over the numeral runs
KanReplace ==
    /\ pc = "kan_replace"
    /\ transuji' = replace_suji(transuji)
    /\ pc' = "kan_return"
    /\ UNCHANGED <<num, kstring, kout>>
    /\ UNCHANGED <<aggVars, repVars>>

\* return zenhan.h2z(transuji)
KanReturn ==
    /\ pc = "kan_return"
    /\ kout' = h2z(transuji)
    /\ pc' = "kan_done"
    /\ UNCHANGED <<num, kstring, transuji>>
    /\ UNCHANGED <<aggVars, repVars>>

NextKan == KanTranslate \/ KanReplace \/ KanReturn

SpecKan == InitKan /\ [][NextKan]_vars

\* C7 (as amended): the result is the decimal digit string of the number,
\* written in the full-width digits that zenhan.h2z produces.
KanRoundTripFullWidth ==
    pc = "kan_done" => kout = h2z(str(num))

\* C7 (as claimed): the result is the plain decimal digit string of the
\* number, 十 giving "10".
KanRoundTripAscii ==
    pc = "kan_done" => kout = str(num)

KanWitness ==
    /\ pc = "kan_done"
    /\ num = 2019
    /\ kstring = <<"K2", "SEN", "JUU", "K9">>
    /\ kout = <<"Z2", "Z0", "Z1", "Z9">>

(***************************************************************************)
(* SpecRep: get_repname_set on one word, from the morphemes the analyser   *)
(* returns for it, with expand_ambiguity run one morpheme at a time.       *)
(***************************************************************************)
RepMorphemes ==
    {Mrph("MEISHI", <<"Za">>, r) :
        r \in {<<"A">>, <<"A", "?", "B">>, <<"B", "?", "A">>,
               <<"A", "b", "?", "C">>, <<"B", "?", "A", "?", "C">>}}
    \cup {Mrph(SUUSHI, m, <<>>) :
        m \in {<<"K2">>, <<"JUU">>, <<"K3", "HYAKU", "K6", "JUU", "K5">>,
               <<"Z1", "Z2">>}}
    \cup {Mrph("JOSHI", m, <<>>) : m \in {<<"NO">>, <<"NO", "Zc">>}}

SeqsUpTo(S, n) == UNION {[1..k -> S] : k \in 0..n}

InitRep ==
    /\ pc = "rep_mrph"
    /\ mrph_list \in SeqsUpTo(RepMorphemes, MaxMrph)
    /\ repname_set = <<>>
    /\ expanded_repname = <<>>
    /\ ri = 0
    /\ IdleAgg /\ IdleKan

\* one turn of "for mrph in r.mrph_list()"
RepMrph ==
    /\ pc = "rep_mrph"
    /\ Len(repname_set) < Len(mrph_list)
    /\ repname_set' =
          Append(repname_set,
                 mrph_candidates(mrph_list[Len(repname_set) + 1]))
    /\ UNCHANGED <<pc, mrph_list, expanded_repname, ri>>
    /\ UNCHANGED <<aggVars, kanVars>>

\* expand_ambiguity(repname_set) is entered: expanded_repname = tuple([''])
RepExpandStart ==
    /\ pc = "rep_mrph"
    /\ Len(repname_set) = Len(mrph_list)
    /\ expanded_repname' = << <<>> >>
    /\ ri' = 1
    /\ pc' = "rep_expand"
    /\ UNCHANGED <<mrph_list, repname_set>>
    /\ UNCHANGED <<aggVars, kanVars>>

\* one turn of "for _repname in repname"
RepExpandStep ==
    /\ pc = "rep_expand"
    /\ ri <= Len(repname_set)
    /\ expanded_repname' = product_tuple(expanded_repname, repname_set[ri])
    /\ ri' = ri + 1
    /\ UNCHANGED <<pc, mrph_list, repname_set>>
    /\ UNCHANGED <<aggVars, kanVars>>

RepReturn ==
    /\ pc = "rep_expand"
    /\ ri > Len(repname_set)
    /\ pc' = "rep_done"
    /\ UNCHANGED <<mrph_list, repname_set, expanded_repname, ri>>
    /\ UNCHANGED <<aggVars, kanVars>>

NextRep == RepMrph \/ RepExpandStart \/ RepExpandStep \/ RepReturn

SpecRep == InitRep /\ [][NextRep]_vars

\* the product of the candidate counts of the morphemes k, k+1, ...
RECURSIVE CountFrom(_, _)
CountFrom(rs, k) ==
    IF k > Len(rs) THEN 1 ELSE Len(rs[k]) * CountFrom(rs, k + 1)

\* the concatenation, in morpheme order, of candidate pick[k] of morpheme k
RECURSIVE ConcatPicks(_, _, _)
ConcatPicks(rs, pick, k) ==
    IF k > Len(rs) THEN <<>>
    ELSE rs[k][pick[k]] \o ConcatPicks(rs, pick, k + 1)

\* the picks of the idx-th element when the earlier morpheme varies slowest
PicksOf(rs, idx) ==
    [k \in 1..Len(rs) |->
        (((idx - 1) \div CountFrom(rs, k + 1)) % Len(rs[k])) + 1]

\* C6: expand_ambiguity returns as many strings as the product of the
\* candidate counts; the first is the concatenation of every morpheme's
\* first candidate; the idx-th is the concatenation of the picks of idx,
\* the earlier morpheme's pick varying slowest.
ExpandContract ==
    pc = "rep_done" =>
        /\ Len(expanded_repname) = CountFrom(repname_set, 1)
        /\ expanded_repname[1] =
              ConcatPicks(repname_set, [k \in 1..Len(repname_set) |-> 1], 1)
        /\ \A idx \in 1..Len(expanded_repname) :
              expanded_repname[idx] =
                 ConcatPicks(repname_set, PicksOf(repname_set, idx), 1)

\* [("A", "B"), ("NO",)] expands to ("ANO", "BNO")
ExpandWitness ==
    /\ pc = "rep_done"
    /\ repname_set = << <<<<"A">>, <<"B">>>>, <<<<"NO">>>> >>
    /\ expanded_repname = << <<"A", "NO">>, <<"B", "NO">> >>

\* C9: a numeral morpheme contributes one candidate list whose entries are
\* the single characters of kansuji2arabic's result, and a word made of one
\* numeral morpheme has the first digit character as primary candidate and
\* its digit characters as candidate set.
NumeralPerCharacter ==
    /\ \A k \in 1..Len(repname_set) :
          mrph_list[k].bunrui = SUUSHI =>
             LET conv == kansuji2arabic(mrph_list[k].midasi)
             IN  /\ Len(repname_set[k]) = Len(conv)
                 /\ \A i \in 1..Len(conv) : repname_set[k][i] = <<conv[i]>>
    /\ (pc = "rep_done" /\ Len(mrph_list) = 1
           /\ mrph_list[1].bunrui = SUUSHI) =>
          LET conv == kansuji2arabic(mrph_list[1].midasi)
          IN  /\ expanded_repname[1] = <<conv[1]>>
              /\ Range(expanded_repname) = {<<c>> : c \in Range(conv)}

\* 三百六十五 alone: candidates ("３", "６", "５"), primary candidate "３"
NumeralWitness ==
    /\ pc = "rep_done"
    /\ mrph_list = <<Mrph(SUUSHI, <<"K3", "HYAKU", "K6", "JUU", "K5">>, <<>>)>>
    /\ expanded_repname = << <<"Z3">>, <<"Z6">>, <<"Z5">> >>

(***************************************************************************)
(* aggregate                                                               *)
(***************************************************************************)
Min(S) == CHOOSE x \in S : \A y \in S : x <= y
Max(S) == CHOOSE x \in S : \A y \in S : x >= y

\* fold_step taking the last cluster that shares an element with the set
fold_step_last(clusters, tup) ==
    LET S == Range(tup)
        hits == {i \in 1..Len(clusters) : S \cap clusters[i] # {}}
    IN  IF hits # {}
        THEN [clusters |-> [clusters EXCEPT ![Max(hits)] = S \cup @],
              into |-> Max(hits) - 1]
        ELSE [clusters |-> Append(clusters, S), into |-> Len(clusters)]

\* fold_step storing the set in place of its union with the cluster
fold_step_replace(clusters, tup) ==
    LET S == Range(tup)
        hits == {i \in 1..Len(clusters) : S \cap clusters[i] # {}}
    IN  IF hits # {}
        THEN [clusters |-> [clusters EXCEPT ![Min(hits)] = S],
              into |-> Min(hits) - 1]
        ELSE [clusters |-> Append(clusters, S), into |-> Len(clusters)]

\* One turn of "for repname_set in repname_sets[1:]": the clusters after
\* the turn and the (0-based) index of the cluster that took the set.
\* The inner for loop stops at the first cluster that shares an element
\* with the set; its else branch appends the set.
fold_step(clusters, tup) ==
    LET S == Range(tup)
        hits == {i \in 1..Len(clusters) : S \cap clusters[i] # {}}
    IN  IF hits # {}
        THEN [clusters |-> [clusters EXCEPT ![Min(hits)] = S \cup @],
              into |-> Min(hits) - 1]
        ELSE [clusters |-> Append(clusters, S), into |-> Len(clusters)]

\* The orders in which the two loops of "assign IDs for each set" can write
\* repname2id: the clusters in list order, the elements of each cluster (a
\* Python set) in any order.  An order is a sequence of <<repname, id>>.
RECURSIVE Perms(_)
Perms(S) ==
    IF S = {} THEN {<<>>}
    ELSE UNION {{<<x>> \o p : p \in Perms(S \ {x})} : x \in S}

RECURSIVE write_orders_from(_, _)
write_orders_from(clusters, i) ==
    IF i > Len(clusters) THEN {<<>>}
    ELSE {[k \in 1..Len(p) |-> <<p[k], i - 1>>] \o rest :
             p \in Perms(clusters[i]),
             rest \in write_orders_from(clusters, i + 1)}

\* the writes of all clusters in any order, as if the clusters were
\* enumerated like a set
write_orders_any(clusters) ==
    Perms({w \in (UNION Range(clusters)) \X (0..(Len(clusters) - 1)) :
              w[1] \in clusters[w[2] + 1]})

write_orders(clusters) == write_orders_from(clusters, 1)

\* write_all that keeps the id a repname already has
RECURSIVE write_all_keep(_, _, _)
write_all_keep(map, order, k) ==
    IF k > Len(order) THEN map
    ELSE LET key == order[k][1]
             id == order[k][2]
         IN  write_all_keep([x \in DOMAIN map \cup {key} |->
                                IF x \in DOMAIN map THEN map[x] ELSE id],
                            order, k + 1)

\* repname2id[repname] = i, for each write of an order in turn
RECURSIVE write_all(_, _, _)
write_all(map, order, k) ==
    IF k > Len(order) THEN map
    ELSE LET key == order[k][1]
             id == order[k][2]
         IN  write_all([x \in DOMAIN map \cup {key} |->
                           IF x = key THEN id ELSE map[x]],
                       order, k + 1)

EmptyMap == [x \in {} |-> 0]

(***************************************************************************)
(* The pipeline of main.  The input file holds words of a small lexicon;   *)
(* the analyser is a fixture that returns one morpheme for a word: a       *)
(* numeral when the word is made of numeral characters, a noun whose       *)
(* alternative representative names are the capitals of its letters when   *)
(* it is made of letters, and a particle without representative name       *)
(* otherwise.                                                              *)
(***************************************************************************)
Letters == {"a", "b", "c"}
Whitespace == {"NL", "SP", "TAB"}

LexWords ==
    {<<x>> : x \in Letters}
    \cup {w \in [1..2 -> Letters] : w[1] # w[2]}
    \cup {<<"2">>, <<"JUU">>, <<"1", "2">>}
    \cup {<<"NO">>}

\* str.strip()
strip(s) ==
    IF \A i \in 1..Len(s) : s[i] \in Whitespace THEN <<>>
    ELSE LET lo == PrefixIn(s, Whitespace) + 1
             hi == Max({i \in 1..Len(s) : s[i] \notin Whitespace})
         IN  SubSeq(s, lo, hi)

RepChar(c) == IF c = "Za" THEN "A" ELSE IF c = "Zb" THEN "B" ELSE "C"

RECURSIVE join_repnames(_)
join_repnames(w) ==
    IF Len(w) = 1 THEN <<RepChar(w[1])>>
    ELSE <<RepChar(w[1]), "?">> \o join_repnames(Tail(w))

juman_analysis(word) ==
    IF \A i \in 1..Len(word) : word[i] \in SujiChars \cup Range(KDigit)
    THEN <<Mrph(SUUSHI, word, <<>>)>>
    ELSE IF \A i \in 1..Len(word) : word[i] \in {"Za", "Zb", "Zc"}
    THEN <<Mrph("MEISHI", word, join_repnames(word))>>
    ELSE <<Mrph("JOSHI", word, <<>>)>>

\* '{}\t{}\n'.format(word, id)
format_line(word, id) == word \o <<"TAB">> \o str(id) \o <<"NL">>

Init ==
    /\ pc = "load"
    /\ file_in \in SeqsUpTo({w \o <<"NL">> : w \in LexWords}, MaxWords)
    /\ words = <<>> /\ prep_words = <<>> /\ repname_sets = <<>>
    /\ repname_sets_to_merge = <<>> /\ wi = 0 /\ merged_into = <<>>
    /\ repname2id = EmptyMap /\ mi = 0
    /\ word_with_id = <<>> /\ file_out = <<>>
    /\ IdleRep /\ IdleKan

\* words = load_file(args.IN)
LoadFile ==
    /\ pc = "load"
    /\ words' = [k \in 1..Len(file_in) |-> strip(file_in[k])]
    /\ pc' = "preprocess"
    /\ UNCHANGED <<file_in, prep_words, repname_sets, repname_sets_to_merge,
                   wi, merged_into, repname2id, mi, word_with_id, file_out>>
    /\ UNCHANGED <<repVars, kanVars>>

\* prerprocessed_words = preprocess_word(words)
PreprocessWord ==
    /\ pc = "preprocess"
    /\ prep_words' = [k \in 1..Len(words) |-> h2z(words[k])]
    /\ pc' = "repname"
    /\ UNCHANGED <<file_in, words, repname_sets, repname_sets_to_merge,
                   wi, merged_into, repname2id, mi, word_with_id, file_out>>
    /\ UNCHANGED <<repVars, kanVars>>

\* one turn of the loop of get_repname_set over the words
GetRepnameSet ==
    /\ pc = "repname"
    /\ Len(repname_sets) < Len(prep_words)
    /\ repname_sets' =
          Append(repname_sets,
                 repname_set_of(
                    juman_analysis(prep_words[Len(repname_sets) + 1])))
    /\ UNCHANGED <<pc, file_in, words, prep_words, repname_sets_to_merge,
                   wi, merged_into, repname2id, mi, word_with_id, file_out>>
    /\ UNCHANGED <<repVars, kanVars>>

\* out = aggregate(words, repname_sets) is entered:
\* repname_sets_to_merge = [set(repname_sets[0])], an IndexError when
\* there is no word
AggregateStart ==
    /\ pc = "repname"
    /\ Len(repname_sets) = Len(prep_words)
    /\ IF Len(repname_sets) = 0
       THEN /\ pc' = "IndexError"
            /\ UNCHANGED <<repname_sets_to_merge, wi, merged_into>>
       ELSE /\ pc' = "fold"
            /\ repname_sets_to_merge' = <<Range(repname_sets[1])>>
            /\ merged_into' = <<0>>
            /\ wi' = 2
    /\ UNCHANGED <<file_in, words, prep_words, repname_sets, repname2id, mi,
                   word_with_id, file_out>>
    /\ UNCHANGED <<repVars, kanVars>>

FoldStep ==
    /\ pc = "fold"
    /\ wi <= Len(repname_sets)
    /\ LET r == fold_step(repname_sets_to_merge, repname_sets[wi])
       IN  /\ repname_sets_to_merge' = r.clusters
           /\ merged_into' = Append(merged_into, r.into)
    /\ wi' = wi + 1
    /\ UNCHANGED <<pc, file_in, words, prep_words, repname_sets, repname2id,
                   mi, word_with_id, file_out>>
    /\ UNCHANGED <<repVars, kanVars>>

\* the loops that fill repname2id, in one of the orders they can take
AssignSetIds ==
    /\ pc = "fold"
    /\ wi > Len(repname_sets)
    /\ \E order \in write_orders(repname_sets_to_merge) :
          repname2id' = write_all(EmptyMap, order, 1)
    /\ mi' = 1
    /\ pc' = "assign"
    /\ UNCHANGED <<file_in, words, prep_words, repname_sets,
                   repname_sets_to_merge, wi, merged_into, word_with_id,
                   file_out>>
    /\ UNCHANGED <<repVars, kanVars>>

\* one turn of "for word, repname_set in zip(words, repname_sets)":
\* repname_set[0] raises IndexError on an empty tuple, repname2id[repname]
\* raises KeyError on a missing key
AssignWordId ==
    /\ pc = "assign"
    /\ mi <= Len(words)
    /\ IF Len(repname_sets[mi]) = 0
       THEN pc' = "IndexError" /\ UNCHANGED <<word_with_id, mi>>
       ELSE IF repname_sets[mi][1] \notin DOMAIN repname2id
       THEN pc' = "KeyError" /\ UNCHANGED <<word_with_id, mi>>
       ELSE /\ word_with_id' =
                  Append(word_with_id,
                         <<words[mi], repname2id[repname_sets[mi][1]]>>)
            /\ mi' = mi + 1
            /\ pc' = pc
    /\ UNCHANGED <<file_in, words, prep_words, repname_sets,
                   repname_sets_to_merge, wi, merged_into, repname2id,
                   file_out>>
    /\ UNCHANGED <<repVars, kanVars>>

\* return word_with_id; save(args.OUT, out)
Save ==
    /\ pc = "assign"
    /\ mi > Len(words)
    /\ file_out' = [k \in 1..Len(word_with_id) |->
                       format_line(word_with_id[k][1], word_with_id[k][2])]
    /\ pc' = "done"
    /\ UNCHANGED <<file_in, words, prep_words, repname_sets,
                   repname_sets_to_merge, wi, merged_into, repname2id, mi,
                   word_with_id>>
    /\ UNCHANGED <<repVars, kanVars>>

Next ==
    \/ LoadFile
    \/ PreprocessWord
    \/ GetRepnameSet
    \/ AggregateStart
    \/ FoldStep
    \/ AssignSetIds
    \/ AssignWordId
    \/ Save

Spec == Init /\ [][Next]_vars

(***************************************************************************)
(* Properties of the clustering fold and of the pipeline, under Spec.      *)
(***************************************************************************)
Clusters == repname_sets_to_merge
Folded == pc \in {"fold", "assign", "done"}
Mapped == pc \in {"assign", "done"}

\* C1: a turn of the fold replaces exactly the lowest-index cluster that
\* shares an element with the word's set S by its union with S and leaves
\* every other cluster, and the number and order of the clusters, as they
\* were; when no cluster shares an element with S, S becomes a new last
\* cluster.  The cluster list never shrinks.
FoldFrame ==
    [][(pc = "fold" /\ wi <= Len(repname_sets)) =>
          LET S == Range(repname_sets[wi])
              old == repname_sets_to_merge
              new == repname_sets_to_merge'
              hits == {i \in 1..Len(old) : S \cap old[i] # {}}
          IN  /\ Len(new) >= Len(old)
              /\ IF hits # {}
                 THEN /\ Len(new) = Len(old)
                      /\ \A i \in 1..Len(old) :
                            new[i] = IF \A j \in hits : i <= j
                                        /\ i \in hits
                                     THEN old[i] \cup S
                                     ELSE old[i]
                 ELSE new = Append(old, S)]_vars

\* a word whose set {A, B} met the clusters {A} and {B}: only the first grew
FoldWitness ==
    /\ pc = "fold"
    /\ wi = 4
    /\ repname_sets[3] = << <<"B">>, <<"A">> >>
    /\ repname_sets_to_merge = << {<<"A">>, <<"B">>}, {<<"B">>} >>

\* C2: once the map is built, every candidate string of final cluster i is
\* mapped to i (the final clusters share no string).
MapGivesClusterIndex ==
    Mapped =>
        \A i \in 1..Len(Clusters) :
            \A x \in Clusters[i] : repname2id[x] = i - 1

\* C3: the id output for a word is the index of the cluster its candidate
\* set was merged into, or appended as, during the fold.
IdIsFoldCluster ==
    pc = "done" =>
        \A k \in 1..Len(word_with_id) : word_with_id[k][2] = merged_into[k]

\* C4: the lookup of the primary candidate never fails: after each turn of
\* the fold the set of every processed word lies within some cluster, and
\* every primary candidate is a key of the map once it is built.
NoConsistencyError ==
    /\ pc # "KeyError"
    /\ Folded =>
          \A k \in 1..(wi - 1) :
              \E i \in 1..Len(Clusters) : Range(repname_sets[k]) \subseteq Clusters[i]
    /\ Mapped =>
          \A k \in 1..Len(repname_sets) :
              repname_sets[k][1] \in DOMAIN repname2id

LookupWitness ==
    /\ pc = "done"
    /\ Len(word_with_id) = 3
    /\ Len(Clusters) = 2
    /\ Clusters[1] \cap Clusters[2] # {}

\* C5: for every number of input lines, none included, the pipeline ends
\* without error with one line per input line, carrying the input token
\* and a non-negative id.
PipelineCompletes ==
    /\ pc \notin {"IndexError", "KeyError"}
    /\ pc = "done" =>
          /\ Len(file_out) = Len(file_in)
          /\ \A k \in 1..Len(file_in) :
                LET id == word_with_id[k][2]
                IN  /\ id \in Nat
                    /\ file_out[k] = format_line(strip(file_in[k]), id)

\* C8: the ids do not depend on the order in which the elements of a
\* cluster are enumerated: every run on the same input gives a candidate
\* string the highest index among the final clusters that hold it, and a
\* word the id of its primary candidate.
LastCluster(x) == Max({i \in 1..Len(Clusters) : x \in Clusters[i]}) - 1

IdsDeterministic ==
    /\ Mapped =>
          repname2id = [x \in UNION Range(Clusters) |-> LastCluster(x)]
    /\ pc = "done" =>
          \A k \in 1..Len(word_with_id) :
              word_with_id[k][2] = LastCluster(repname_sets[k][1])

\* a candidate string of two final clusters, written in either order
DeterministicWitness ==
    /\ pc = "done"
    /\ Clusters = << {<<"Z2">>, <<"Z1">>}, {<<"Z1">>, <<"Z0">>} >>
    /\ repname2id[<<"Z1">>] = 1
    /\ word_with_id[3] = << <<"1", "2">>, 1 >>

\* C10: the ids output are exactly 0 .. k-1 for k final clusters; the first
\* word has id 0; a word whose set was appended as a new cluster has that
\* cluster's index as id; the first occurrences of the ids come in
\* increasing order.
Ids(n) == {word_with_id[j][2] : j \in 1..n}
Appended(k) == merged_into[k] \notin {merged_into[j] : j \in 1..(k - 1)}

IdsAreDense ==
    pc = "done" =>
        LET n == Len(word_with_id)
        IN  /\ Ids(n) = 0..(Len(Clusters) - 1)
            /\ word_with_id[1][2] = 0
            /\ \A k \in 1..n :
                  /\ Appended(k) => word_with_id[k][2] = merged_into[k]
                  /\ word_with_id[k][2] <= Cardinality(Ids(k - 1))

DenseWitness ==
    /\ pc = "done"
    /\ Len(word_with_id) = 3
    /\ Ids(3) = {0, 1, 2}

====
